---- MODULE Spec2Model ----
(***************************************************************************)
(* A model of the push-event relay script fp.py (Python 2).                *)
(*                                                                         *)
(* One run of main() is a sequence of steps: parse the command line, load  *)
(* the JSON document from standard input, read four fields, validate       *)
(* three of them, join and enter the repository directory, run "git        *)
(* fetch", start hooks/post-receive, hand it one line, print what it       *)
(* wrote and exit with its return code.  Every uncaught Python exception   *)
(* ends the run with exit status 1.                                        *)
(*                                                                         *)
(* Text is modelled as a sequence of characters, each character a          *)
(* one-token string; a path is a sequence of path tokens ("/" and names).  *)
(***************************************************************************)
EXTENDS Integers, Sequences, FiniteSets, TLC

VARIABLES pc, args, payload, repo_name, ref, before, after, repo_dir, cwd,
          fetch, hook, outd, errd, stdout, stderr, error, exitStatus

vars == <<pc, args, payload, repo_name, ref, before, after, repo_dir, cwd,
          fetch, hook, outd, errd, stdout, stderr, error, exitStatus>>

(***************************************************************************)
(* Bounds of the model.                                                    *)
(***************************************************************************)
MaxFieldLen == 1
MaxNameLen == 1
MaxOutLen == 1

(***************************************************************************)
(* Text.                                                                   *)
(***************************************************************************)
SeqsUpTo(S, n) == UNION {[1..k -> S] : k \in 0..n}

\* characters a JSON string field may hold: two ASCII ones and one that is not
NonAscii == {"U+00E9"}
FieldChars == {"a", "b"} \cup NonAscii
FieldStrings == SeqsUpTo(FieldChars, MaxFieldLen)

\* characters the hook may write
OutChars == {"x", "\n"}
OutStrings == SeqsUpTo(OutChars, MaxOutLen)

(***************************************************************************)
(* JSON values as json.load returns them: a key that is absent, null       *)
(* (None), or a string (unicode).                                          *)
(***************************************************************************)
Absent == [t |-> "absent", s |-> <<>>]
Null == [t |-> "null", s |-> <<>>]
Str(s) == [t |-> "str", s |-> s]

FieldValues == {Absent, Null} \cup {Str(s) : s \in FieldStrings}

\* Python truthiness of a value read from the payload: None and u"" are false
Truthy(v) == v.t = "str" /\ v.s # <<>>

(***************************************************************************)
(* Paths and the file system the run sees.                                 *)
(***************************************************************************)
Sep == "/"
NameTokens == {Sep, "..", "repo", "notes", "gone"}
NameStrings == SeqsUpTo(NameTokens, MaxNameLen)
NameValues == {Absent, Null} \cup {Str(s) : s \in NameStrings}

\* the positional argument: /srv/git
BaseRepoDir == <<Sep, "srv", Sep, "git">>
ArgLists == {<<>>, <<BaseRepoDir>>}

\* directories and regular files, as the names from the root
BaseLocation == <<"srv", "git">>
Dirs == {<<>>, <<"srv">>, BaseLocation, BaseLocation \o <<"repo">>}
Files == {BaseLocation \o <<"notes">>}
StartDir == <<"srv">>

\* os.path.join(a, b) of posixpath
Join(a, b) ==
    IF b # <<>> /\ b[1] = Sep THEN b
    ELSE IF a = <<>> \/ a[Len(a)] = Sep THEN a \o b
    ELSE a \o <<Sep>> \o b

\* the components of a path between separators
RECURSIVE Split(_, _)
Split(path, comp) ==
    IF path = <<>> THEN <<comp>>
    ELSE IF Head(path) = Sep THEN <<comp>> \o Split(Tail(path), <<>>)
    ELSE Split(Tail(path), comp \o <<Head(path)>>)

Found(d) == [ok |-> TRUE, dir |-> d, errno |-> "0"]
Failed(e) == [ok |-> FALSE, dir |-> <<>>, errno |-> e]

\* the kernel's walk over the components of a path, from directory d
RECURSIVE Walk(_, _)
Walk(d, comps) ==
    IF comps = <<>> THEN Found(d)
    ELSE LET c == Head(comps) IN
         IF c = <<>> THEN Walk(d, Tail(comps))
         ELSE IF c = <<"..">>
              THEN Walk(IF d = <<>> THEN d ELSE SubSeq(d, 1, Len(d) - 1), Tail(comps))
         ELSE IF Len(c) = 1 /\ (d \o c) \in Dirs THEN Walk(d \o c, Tail(comps))
         ELSE IF Len(c) = 1 /\ (d \o c) \in Files THEN Failed("ENOTDIR")
         ELSE Failed("ENOENT")

\* what os.chdir(path) resolves to when the working directory is from
Resolve(from, path) ==
    IF path = <<>> THEN Failed("ENOENT")
    ELSE Walk(IF path[1] = Sep THEN <<>> ELSE from, Split(path, <<>>))

(***************************************************************************)
(* The documents standard input may hold.                                  *)
(***************************************************************************)
NoRepository == [t |-> "absent", name |-> Absent]
ScalarRepository == [t |-> "scalar", name |-> Absent]
Repositories ==
    {NoRepository, ScalarRepository} \cup
    {[t |-> "object", name |-> n] : n \in NameValues}

Objects ==
    [kind : {"object"}, repository : Repositories,
     ref : FieldValues, before : FieldValues, after : FieldValues]
NoDocument ==
    [kind |-> "none", repository |-> NoRepository,
     ref |-> Absent, before |-> Absent, after |-> Absent]
\* input that is not JSON, and JSON that is not an object
InvalidDocument == [NoDocument EXCEPT !.kind = "invalid"]
ScalarDocument == [NoDocument EXCEPT !.kind = "scalar"]
Documents == {InvalidDocument, ScalarDocument} \cup Objects

(***************************************************************************)
(* The external processes.                                                 *)
(***************************************************************************)
FetchStatuses == {0, 7, 128}
HookStatuses == {0, 3, 255}

\* a child process: how often it was started, where, what it was given on its
\* input, and its return code once it has terminated
NoProcess == [state |-> "none", n |-> 0, cwd |-> <<>>, stdin |-> <<>>, status |-> -1]

NoError == [type |-> "none", arg |-> ""]

Init ==
    /\ pc = "start"
    /\ args = <<>>
    /\ payload = NoDocument
    /\ repo_name = Absent
    /\ ref = Absent
    /\ before = Absent
    /\ after = Absent
    /\ repo_dir = <<>>
    /\ cwd = StartDir
    /\ fetch = NoProcess
    /\ hook = NoProcess
    /\ outd = <<>>
    /\ errd = <<>>
    /\ stdout = <<>>
    /\ stderr = <<>>
    /\ error = NoError
    /\ exitStatus = -1

\* an uncaught exception: the interpreter prints the traceback and exits 1
Raise(type, arg) ==
    /\ pc' = "done"
    /\ error' = [type |-> type, arg |-> arg]
    /\ exitStatus' = 1


Done(status) ==
    /\ pc' = "done"
    /\ exitStatus' = status % 256
    /\ UNCHANGED error

(***************************************************************************)
(* main(), statement by statement.                                         *)
(***************************************************************************)

\* parser.parse_args(); parser.error() exits with status 2 when no
\* positional argument was given; base_repo_dir = args[0]
ParseArgs ==
    /\ pc = "start"
    /\ \E a \in ArgLists :
        /\ args' = a
        /\ IF a = <<>>
           THEN /\ pc' = "done"
                /\ error' = [type |-> "SystemExit", arg |-> "Base repo dir is required"]
                /\ exitStatus' = 2
           ELSE /\ pc' = "load"
                /\ UNCHANGED <<error, exitStatus>>
    /\ UNCHANGED <<payload, repo_name, ref, before, after, repo_dir, cwd,
                   fetch, hook, outd, errd, stdout, stderr>>

\* payload = json.load(sys.stdin)
LoadPayload ==
    /\ pc = "load"
    /\ \E d \in Documents :
        IF d.kind = "invalid"
        THEN Raise("ValueError", "No JSON object could be decoded") /\ UNCHANGED payload
        ELSE /\ payload' = d
             /\ pc' = "repo_name"
             /\ UNCHANGED <<error, exitStatus>>
    /\ UNCHANGED <<args, repo_name, ref, before, after, repo_dir, cwd,
                   fetch, hook, outd, errd, stdout, stderr>>

\* repo_name = payload["repository"]["name"]
ExtractRepoName ==
    /\ pc = "repo_name"
    /\ IF payload.kind # "object"
       THEN Raise("TypeError", "payload") /\ UNCHANGED repo_name
       ELSE IF payload.repository.t = "absent"
       THEN Raise("KeyError", "repository") /\ UNCHANGED repo_name
       ELSE IF payload.repository.t # "object"
       THEN Raise("TypeError", "repository") /\ UNCHANGED repo_name
       ELSE IF payload.repository.name.t = "absent"
       THEN Raise("KeyError", "name") /\ UNCHANGED repo_name
       ELSE /\ repo_name' = payload.repository.name
            /\ pc' = "ref"
            /\ UNCHANGED <<error, exitStatus>>
    /\ UNCHANGED <<args, payload, ref, before, after, repo_dir, cwd,
                   fetch, hook, outd, errd, stdout, stderr>>

\* ref = payload["ref"]
ExtractRef ==
    /\ pc = "ref"
    /\ IF payload.ref.t = "absent"
       THEN Raise("KeyError", "ref") /\ UNCHANGED ref
       ELSE /\ ref' = payload.ref
            /\ pc' = "before"
            /\ UNCHANGED <<error, exitStatus>>
    /\ UNCHANGED <<args, payload, repo_name, before, after, repo_dir, cwd,
                   fetch, hook, outd, errd, stdout, stderr>>

\* before = payload["before"]
ExtractBefore ==
    /\ pc = "before"
    /\ IF payload.before.t = "absent"
       THEN Raise("KeyError", "before") /\ UNCHANGED before
       ELSE /\ before' = payload.before
            /\ pc' = "after"
            /\ UNCHANGED <<error, exitStatus>>
    /\ UNCHANGED <<args, payload, repo_name, ref, after, repo_dir, cwd,
                   fetch, hook, outd, errd, stdout, stderr>>

\* after = payload["after"]
ExtractAfter ==
    /\ pc = "after"
    /\ IF payload.after.t = "absent"
       THEN Raise("KeyError", "after") /\ UNCHANGED after
       ELSE /\ after' = payload.after
            /\ pc' = "validate"
            /\ UNCHANGED <<error, exitStatus>>
    /\ UNCHANGED <<args, payload, repo_name, ref, before, repo_dir, cwd,
                   fetch, hook, outd, errd, stdout, stderr>>

\* a validation that looks at before first
validate_before_first(r, b, a) ==
    IF ~Truthy(b) THEN "No before found"
    ELSE IF ~Truthy(r) THEN "No ref found"
    ELSE IF ~Truthy(a) THEN "No after found"
    ELSE ""

\* _validate_post_receive_args(ref, before, after): the message of the
\* exception it raises, "" when it returns
validate_post_receive_args(r, b, a) ==
    IF ~Truthy(r) THEN "No ref found"
    ELSE IF ~Truthy(b) THEN "No before found"
    ELSE IF ~Truthy(a) THEN "No after found"
    ELSE ""

\* _validate_post_receive_args(ref, before, after)
Validate ==
    /\ pc = "validate"
    /\ LET msg == validate_post_receive_args(ref, before, after) IN
       IF msg # ""
       THEN Raise("Exception", msg)
       ELSE /\ pc' = "join"
            /\ UNCHANGED <<error, exitStatus>>
    /\ UNCHANGED <<args, payload, repo_name, ref, before, after, repo_dir, cwd,
                   fetch, hook, outd, errd, stdout, stderr>>

\* repo_dir = os.path.join(base_repo_dir, repo_name); a name that is None has
\* no startswith
JoinRepoDir ==
    /\ pc = "join"
    /\ IF repo_name.t # "str"
       THEN Raise("AttributeError", "startswith") /\ UNCHANGED repo_dir
       ELSE /\ repo_dir' = Join(args[1], repo_name.s)
            /\ pc' = "chdir"
            /\ UNCHANGED <<error, exitStatus>>
    /\ UNCHANGED <<args, payload, repo_name, ref, before, after, cwd,
                   fetch, hook, outd, errd, stdout, stderr>>

\* a chdir whose failure is swallowed
ChdirUnchecked ==
    /\ pc = "chdir"
    /\ LET r == Resolve(cwd, repo_dir) IN
       cwd' = IF r.ok THEN r.dir ELSE cwd
    /\ pc' = "fetch"
    /\ UNCHANGED <<args, payload, repo_name, ref, before, after, repo_dir,
                   fetch, hook, outd, errd, stdout, stderr, error, exitStatus>>

\* os.chdir(repo_dir)
Chdir ==
    /\ pc = "chdir"
    /\ LET r == Resolve(cwd, repo_dir) IN
       IF r.ok
       THEN /\ cwd' = r.dir
            /\ pc' = "fetch"
            /\ UNCHANGED <<error, exitStatus>>
       ELSE Raise("OSError", r.errno) /\ UNCHANGED cwd
    /\ UNCHANGED <<args, payload, repo_name, ref, before, after, repo_dir,
                   fetch, hook, outd, errd, stdout, stderr>>


(***************************************************************************)
(* check_call(["git", "fetch"]): start git, wait for it, raise             *)
(* CalledProcessError on a return code other than 0.                       *)
(***************************************************************************)

\* a fetch that is started and not waited for
FetchStartNoWait ==
    /\ pc = "fetch"
    /\ fetch' = [fetch EXCEPT !.state = "running", !.n = @ + 1, !.cwd = cwd]
    /\ pc' = "popen"
    /\ UNCHANGED <<args, payload, repo_name, ref, before, after, repo_dir, cwd,
                   hook, outd, errd, stdout, stderr, error, exitStatus>>

\* check_call, first half: the child is started in the working directory,
\* or git cannot be executed
FetchStart ==
    /\ pc = "fetch"
    /\ \E startable \in BOOLEAN :
        IF startable
        THEN /\ fetch' = [fetch EXCEPT !.state = "running", !.n = @ + 1, !.cwd = cwd]
             /\ pc' = "fetch_wait"
             /\ UNCHANGED <<error, exitStatus>>
        ELSE Raise("OSError", "ENOENT") /\ UNCHANGED fetch
    /\ UNCHANGED <<args, payload, repo_name, ref, before, after, repo_dir, cwd,
                   hook, outd, errd, stdout, stderr>>

\* a fetch whose return code is not looked at
FetchWaitIgnoringStatus ==
    /\ pc = "fetch_wait"
    /\ \E st \in FetchStatuses :
        fetch' = [fetch EXCEPT !.state = "exited", !.status = st]
    /\ pc' = "popen"
    /\ UNCHANGED <<args, payload, repo_name, ref, before, after, repo_dir, cwd,
                   hook, outd, errd, stdout, stderr, error, exitStatus>>

\* check_call, second half: the child has terminated
FetchWait ==
    /\ pc = "fetch_wait"
    /\ \E st \in FetchStatuses :
        /\ fetch' = [fetch EXCEPT !.state = "exited", !.status = st]
        /\ IF st # 0
           THEN Raise("CalledProcessError", "git fetch")
           ELSE /\ pc' = "popen"
                /\ UNCHANGED <<error, exitStatus>>
    /\ UNCHANGED <<args, payload, repo_name, ref, before, after, repo_dir, cwd,
                   hook, outd, errd, stdout, stderr>>

\* pr = Popen(["hooks/post-receive"], stdin=PIPE, stderr=PIPE, stdout=PIPE):
\* the hook is started in the working directory, or cannot be executed
PopenHook ==
    /\ pc = "popen"
    /\ \E startable \in BOOLEAN :
        IF startable
        THEN /\ hook' = [hook EXCEPT !.state = "running", !.n = @ + 1, !.cwd = cwd]
             /\ pc' = "communicate"
             /\ UNCHANGED <<error, exitStatus>>
        ELSE Raise("OSError", "ENOENT") /\ UNCHANGED hook
    /\ UNCHANGED <<args, payload, repo_name, ref, before, after, repo_dir, cwd,
                   fetch, outd, errd, stdout, stderr>>

\* "%s %s %s\n" % (before, after, ref) of three unicode strings
Format(b, a, r) == b.s \o <<" ">> \o a.s \o <<" ">> \o r.s \o <<"\n">>

\* os.write of a unicode object encodes it with the default codec, ascii
Encodable(s) == \A i \in 1..Len(s) : s[i] \notin NonAscii

\* outd, errd = pr.communicate("%s %s %s\n" % (before, after, ref)).
\* The line is written to the hook's input, the input is closed, and both
\* outputs are read until the hook terminates.  A line that is not ASCII
\* raises UnicodeEncodeError at the write: nothing reaches the hook, which
\* the run leaves behind, terminated already or still running.
Communicate ==
    /\ pc = "communicate"
    /\ LET line == Format(before, after, ref) IN
       IF Encodable(line)
       THEN \E out \in OutStrings \cup {line}, err \in OutStrings, st \in HookStatuses :
                /\ hook' = [hook EXCEPT !.state = "exited", !.stdin = line, !.status = st]
                /\ outd' = out
                /\ errd' = err
                /\ pc' = "print_out"
                /\ UNCHANGED <<error, exitStatus>>
       ELSE /\ \/ UNCHANGED hook
               \/ \E st \in HookStatuses :
                      hook' = [hook EXCEPT !.state = "exited", !.status = st]
            /\ Raise("UnicodeEncodeError", "ascii")
            /\ UNCHANGED <<outd, errd>>
    /\ UNCHANGED <<args, payload, repo_name, ref, before, after, repo_dir, cwd,
                   fetch, stdout, stderr>>

\* print outd: the string and a newline
PrintOut ==
    /\ pc = "print_out"
    /\ stdout' = stdout \o outd \o <<"\n">>
    /\ pc' = "print_err"
    /\ UNCHANGED <<args, payload, repo_name, ref, before, after, repo_dir, cwd,
                   fetch, hook, outd, errd, stderr, error, exitStatus>>

\* print >> sys.stderr, errd: the string and a newline
PrintErr ==
    /\ pc = "print_err"
    /\ stderr' = stderr \o errd \o <<"\n">>
    /\ pc' = "exit"
    /\ UNCHANGED <<args, payload, repo_name, ref, before, after, repo_dir, cwd,
                   fetch, hook, outd, errd, stdout, error, exitStatus>>

\* an exit that reports success whatever the hook returned
ExitZero ==
    /\ pc = "exit"
    /\ Done(0)
    /\ UNCHANGED <<args, payload, repo_name, ref, before, after, repo_dir, cwd,
                   fetch, hook, outd, errd, stdout, stderr>>

\* sys.exit(pr.returncode)
Exit ==
    /\ pc = "exit"
    /\ Done(hook.status)
    /\ UNCHANGED <<args, payload, repo_name, ref, before, after, repo_dir, cwd,
                   fetch, hook, outd, errd, stdout, stderr>>

Next ==
    \/ ParseArgs
    \/ LoadPayload
    \/ ExtractRepoName
    \/ ExtractRef
    \/ ExtractBefore
    \/ ExtractAfter
    \/ Validate
    \/ JoinRepoDir
    \/ Chdir
    \/ FetchStart
    \/ FetchWait
    \/ PopenHook
    \/ Communicate
    \/ PrintOut
    \/ PrintErr
    \/ Exit

Spec == Init /\ [][Next]_vars

TypeOK ==
    /\ pc \in {"start", "load", "repo_name", "ref", "before", "after", "validate",
               "join", "chdir", "fetch", "fetch_wait", "popen", "communicate",
               "print_out", "print_err", "exit", "done"}
    /\ exitStatus \in -1..255
    /\ (pc = "done") = (exitStatus # -1)


(***************************************************************************)
(* Vocabulary of the properties.                                           *)
(***************************************************************************)
Empty(v) == v.t # "str" \/ Len(v.s) = 0
Missing(v) == v.t = "absent" \/ Empty(v)

\* the run has ended
Finished == pc = "done"
\* the run has ended with an exception raised before _validate_post_receive_args
FailedBeforeValidation ==
    Finished /\ error.type \in {"SystemExit", "ValueError", "TypeError", "KeyError"}
\* _validate_post_receive_args has been called and has returned or raised
ValidationDone ==
    \/ pc \in {"join", "chdir", "fetch", "fetch_wait", "popen", "communicate",
               "print_out", "print_err", "exit"}
    \/ Finished /\ ~FailedBeforeValidation
ValidationError(msg) == error = [type |-> "Exception", arg |-> msg]
\* the error of the run names the field
ErrorNames(field, msg) ==
    ValidationError(msg) \/ error = [type |-> "KeyError", arg |-> field]
\* no directory change, no fetch, no hook
NoInteraction == cwd = StartDir /\ fetch.state = "none" /\ hook.state = "none"
\* os.chdir(repo_dir) has been called
ChdirDone == repo_dir # <<>> /\ pc # "chdir"

\* C1: whenever the hook was started and has terminated, the exit status of
\* the finished run is the status the hook returned.
C1_ExitStatusIsHookStatus ==
    (Finished /\ hook.state = "exited") => exitStatus = hook.status

\* C2: once git fetch has terminated with a status other than 0, the run has
\* ended with CalledProcessError and a non-zero status, and the hook was not
\* started.
C2_FetchFailureAborts ==
    (fetch.state = "exited" /\ fetch.status # 0) =>
        /\ Finished
        /\ error.type = "CalledProcessError"
        /\ exitStatus # 0
        /\ hook.state = "none" /\ hook.n = 0
C2_Witness == Finished /\ fetch.state = "exited" /\ fetch.status = 7

\* C3: after validation, the error is the one naming the first empty field in
\* the order ref, before, after, and there is no validation error exactly
\* when all three are non-empty.
C3_FirstEmptyFieldReported ==
    ValidationDone =>
        /\ Empty(ref) => ValidationError("No ref found")
        /\ (~Empty(ref) /\ Empty(before)) => ValidationError("No before found")
        /\ (~Empty(ref) /\ ~Empty(before) /\ Empty(after))
              => ValidationError("No after found")
        /\ (~Empty(ref) /\ ~Empty(before) /\ ~Empty(after))
              => error.type # "Exception"
        /\ error.type = "Exception" => (Finished /\ exitStatus # 0)
C3_Witness ==
    /\ Finished /\ ValidationError("No before found")
    /\ ~Empty(ref) /\ Empty(before) /\ Empty(after)

\* C4: every payload whose repository.name can be read and whose ref is
\* empty or absent ends with the error naming ref, and never leads to a
\* directory change, a fetch or a hook.
RepositoryNameReadable ==
    /\ payload.kind = "object"
    /\ payload.repository.t = "object"
    /\ payload.repository.name.t # "absent"
C4_MissingRefNamesRef ==
    (RepositoryNameReadable /\ Missing(payload.ref)) =>
        /\ NoInteraction
        /\ Finished => ErrorNames("ref", "No ref found")

\* C5: once the directory change to a path that does not resolve to a
\* directory has been attempted, the run has ended with the OSError of chdir
\* and a non-zero status, and neither fetch nor hook was started.
C5_MissingRepositoryAborts ==
    (ChdirDone /\ ~Resolve(StartDir, repo_dir).ok) =>
        /\ Finished
        /\ error.type = "OSError" /\ error.arg \in {"ENOENT", "ENOTDIR"}
        /\ exitStatus # 0
        /\ cwd = StartDir
        /\ fetch.state = "none" /\ hook.state = "none"
C5_Witness ==
    /\ Finished /\ repo_name = Str(<<"notes">>)
    /\ error = [type |-> "OSError", arg |-> "ENOTDIR"]

\* C6: a run that relayed the hook's output wrote to its standard output
\* exactly what the hook wrote to its standard output, and to its standard
\* error exactly what the hook wrote to its standard error.
C6_OutputVerbatim ==
    (Finished /\ error = NoError) => (stdout = outd /\ stderr = errd)

\* C7: once the hook has been started and communicate is over, the hook was
\* given exactly the line "<before> <after> <ref>\n" on its input.
C7_HookInputIsTheLine ==
    (hook.state # "none" /\ pc # "communicate") =>
        hook.stdin = before.s \o <<" ">> \o after.s \o <<" ">> \o ref.s \o <<"\n">>

C9_StepsInOrder ==
    /\ fetch.state # "none" =>
          /\ ~Empty(ref) /\ ~Empty(before) /\ ~Empty(after)
          /\ ChdirDone /\ Resolve(StartDir, repo_dir).ok
          /\ fetch.cwd = Resolve(StartDir, repo_dir).dir
          /\ cwd = fetch.cwd
    /\ hook.state # "none" =>
          /\ fetch.state = "exited" /\ fetch.status = 0
          /\ hook.cwd = fetch.cwd
    /\ fetch.n <= 1 /\ hook.n <= 1
    /\ (fetch.state = "none") = (fetch.n = 0)
    /\ (hook.state = "none") = (hook.n = 0)
C9_Witness == hook.state = "running" /\ fetch.state = "exited" /\ fetch.n = 1

\* C10: fetch and hook only ever run in the subdirectory of the base
\* directory that is named after the repository.
RepositorySubdirectory(d) ==
    /\ Len(d) = Len(BaseLocation) + 1
    /\ SubSeq(d, 1, Len(BaseLocation)) = BaseLocation
    /\ repo_name.s = <<d[Len(d)]>>
C10_RunsInRepositorySubdirectory ==
    /\ fetch.state # "none" => RepositorySubdirectory(fetch.cwd)
    /\ hook.state # "none" => RepositorySubdirectory(hook.cwd)

====
